---- MODULE Spec2Model ----
(***************************************************************************)
(* Channel-info retrieval pipeline of the Telegram parser service          *)
(* (parser/src/parser.py): Parser.get_channel_info and the coroutines it   *)
(* awaits.  One invocation is modelled as a step machine whose steps are   *)
(* the awaits of the code; the remote platform answers every await with a  *)
(* nondeterministic reply after a nondeterministic delay.                  *)
(***************************************************************************)
EXTENDS Integers, Sequences, FiniteSets, TLC

VARIABLES
    pc,         \* position of the invocation in the code
    link,       \* request.channel_link
    get_logo,   \* request.get_logo
    handle,     \* non_active_client returned by telegram.get_client()
    held,       \* handles inside their `async with` block
    acquired,   \* per handle: number of __aenter__ calls
    released,   \* per handle: number of __aexit__ calls
    banned,     \* per handle: number of mark_as_ban() calls
    elapsed,    \* seconds since asyncio.wait_for started
    expired,    \* TRUE once wait_for's timeout has fired
    polls,      \* iterations started of `for _ in range(3)`
    entity,     \* channel_entity
    logo,       \* logo
    exc,        \* exception in flight
    posts,      \* the posts client.iter_messages delivered
    log,        \* awaits issued so far, with the reply each one got
    result,     \* what the caller of get_channel_info receives
    channels,   \* database: the Channel table, by id
    statistics, \* database: the ChannelStatistics table, in insertion order
    up,         \* database: the update_or_create_channel call in progress
    rd          \* database: the get_channel / get_channel_by_link call in progress

parservars == <<pc, link, get_logo, handle, held, acquired, released, banned,
                elapsed, expired, polls, entity, logo, exc, posts, log, result>>

dbvars == <<channels, statistics, up, rd>>

vars == <<parservars, dbvars>>

-----------------------------------------------------------------------------
(* Program constants *)

PollRetries == 3
SleepSeconds == 10
Deadline == 60

(* Bounds of the model *)

DurStep == 20
MaxFloodSeconds == 2

Durations == {0, DurStep, 2 * DurStep}
FloodSeconds == 1..MaxFloodSeconds

-----------------------------------------------------------------------------
(* Strings are sequences of characters. *)

Https == <<"h","t","t","p","s",":","/","/">>
Http == <<"h","t","t","p",":","/","/">>

Links ==
    { <<"t",".","m","e","/","f","o","o">>,
      Https \o <<"t",".","m","e","/","+","A","b">>,
      Http \o <<"t",".","m","e","/","j","/","Z">> }

Handles == {"s1", "s2"}
Entities == {"chanA", "chanB"}
None == "None"

startswith(s, p) ==
    /\ Len(s) >= Len(p)
    /\ SubSeq(s, 1, Len(p)) = p

removeprefix(s, p) ==
    IF startswith(s, p) THEN SubSeq(s, Len(p) + 1, Len(s)) ELSE s

\* url.split('/')[-1]
LastSegment(url) ==
    LET slashes == {i \in 1..Len(url) : url[i] = "/"}
        last == IF slashes = {} THEN 0
                ELSE CHOOSE i \in slashes : \A j \in slashes : j <= i
    IN SubSeq(url, last + 1, Len(url))

invite_hash(url) ==
    LET h == LastSegment(url)
    IN IF startswith(h, <<"+">>) THEN SubSeq(h, 2, Len(h)) ELSE h

StripScheme(url) ==
    IF startswith(url, Https) THEN removeprefix(url, Https)
    ELSE IF startswith(url, Http) THEN removeprefix(url, Http)
    ELSE url

-----------------------------------------------------------------------------
(* Exceptions.  Library exceptions are those telethon / asyncio raise;     *)
(* shared_models.parser.errors and the TimeoutError of get_channel_info    *)
(* are the ones the service constructs.                                    *)

Exc(t, s, l, d) == [type |-> t, seconds |-> s, link |-> l, detail |-> d]

Lib(t) == Exc(t, 0, <<>>, t)
NoExc == Lib("none")

ValueError == Lib("ValueError")
UserAlreadyParticipantError == Lib("UserAlreadyParticipantError")
InviteRequestSentError == Lib("InviteRequestSentError")
InviteHashExpiredError == Lib("InviteHashExpiredError")
UserDeactivatedBanError == Lib("UserDeactivatedBanError")
RPCError == Lib("RPCError")
AsyncioTimeoutError == Lib("asyncio.TimeoutError")
FloodWaitError(s) == Exc("FloodWaitError", s, <<>>, "FloodWaitError")

FloodWait(s) == Exc("FloodWait", s, <<>>, "")
InvalidChannelLink(l, d) == Exc("InvalidChannelLink", 0, l, d)
UserBan(d) == Exc("UserBan", 0, <<>>, d)
CannotGetChannelInfo(l) == Exc("CannotGetChannelInfo", 0, l, "")
TimeoutError == Exc("TimeoutError", 0, <<>>, "Timeout while getting channel info. Client may be banned")

FloodWaitErrors == {FloodWaitError(s) : s \in FloodSeconds}

CommonErrors ==
    {UserDeactivatedBanError, RPCError, AsyncioTimeoutError} \cup FloodWaitErrors

\* what client.get_entity(link) can raise
GetEntityErrors == CommonErrors \cup {ValueError, InviteHashExpiredError}

\* what client(ImportChatInviteRequest(hash)) can raise
ImportErrors ==
    CommonErrors \cup
        {UserAlreadyParticipantError, InviteRequestSentError, InviteHashExpiredError}

-----------------------------------------------------------------------------
(* Replies of the remote platform *)

Return(v) == [status |-> "return", value |-> v, exc |-> NoExc]
Raise(e) == [status |-> "raise", value |-> None, exc |-> e]

GetEntityReplies ==
    {Return(v) : v \in Entities \cup {None}} \cup {Raise(e) : e \in GetEntityErrors}

ImportReplies == {Return("Updates")} \cup {Raise(e) : e \in ImportErrors}

PhotoReplies == {Return("bytes"), Return(None)} \cup {Raise(e) : e \in CommonErrors}

FullChannelReplies == {Return("ChatFull")} \cup {Raise(e) : e \in CommonErrors}

IterMessagesReplies == {Return("posts")} \cup {Raise(e) : e \in CommonErrors}

Call(op, arg, secs, reply) == [op |-> op, arg |-> arg, secs |-> secs, reply |-> reply]


-----------------------------------------------------------------------------
(* Posts returned by client.iter_messages, newest first.  A post is its    *)
(* age in hours at the time of the scan and its view counter (NoViews for  *)
(* post.views = None).                                                     *)

WindowHours == 24
NoViews == -1

Post(a, v) == [age |-> a, views |-> v]

PostFeeds ==
    { <<>>,
      <<Post(1, 10), Post(2, NoViews), Post(26, 999)>>,
      <<Post(1, 10), Post(24, 7), Post(25, 3)>>,
      <<Post(3, NoViews)>> }

\* scan breaking already at a post exactly 24 hours old
RECURSIVE scan_StrictCutoff(_, _, _, _)
scan_StrictCutoff(msgs, i, views, count) ==
    IF i > Len(msgs) THEN <<views, count>>
    ELSE IF msgs[i].age >= WindowHours THEN <<views, count>>
    ELSE scan_StrictCutoff(msgs, i + 1,
              IF msgs[i].views # NoViews THEN msgs[i].views ELSE views,
              count + 1)

\* scan keeping the first view counter it sees
RECURSIVE scan_FirstWins(_, _, _, _)
scan_FirstWins(msgs, i, views, count) ==
    IF i > Len(msgs) THEN <<views, count>>
    ELSE IF msgs[i].age > WindowHours THEN <<views, count>>
    ELSE scan_FirstWins(msgs, i + 1,
              IF msgs[i].views # NoViews /\ views = 0 THEN msgs[i].views ELSE views,
              count + 1)

\* the loop of __get_posts from post i on, with the views and count so far
RECURSIVE scan(_, _, _, _)
scan(msgs, i, views, count) ==
    IF i > Len(msgs) THEN <<views, count>>
    ELSE IF msgs[i].age > WindowHours THEN <<views, count>>
    ELSE scan(msgs, i + 1,
              IF msgs[i].views # NoViews THEN msgs[i].views ELSE views,
              count + 1)

get_posts(msgs) == scan(msgs, 1, 0, 0)

-----------------------------------------------------------------------------
(* The invocation *)

NoChannel == [link |-> <<>>, name |-> None, views |-> 0, posts_count |-> 0]
NoResult == [kind |-> "none", exc |-> NoExc, channel |-> NoChannel, logo |-> None]

\* the database service: empty tables, no call in progress
NoUpsert ==
    [pc |-> "idle", id |-> 0, request |-> <<>>, channel |-> NoChannel,
     created |-> FALSE, done |-> 0]
NoRead ==
    [pc |-> "idle", op |-> "none", id |-> 0, query |-> <<>>, link |-> <<>>,
     row |-> 0, result |-> "none", channel |-> NoChannel, last_update |-> 0]

DbInit ==
    /\ channels = <<>>
    /\ statistics = <<>>
    /\ up = NoUpsert
    /\ rd = NoRead

\* the parser service before a call of get_channel_info
ParserInit ==
    /\ pc = "idle"
    /\ link = <<>>
    /\ get_logo = FALSE
    /\ handle = None
    /\ held = {}
    /\ acquired = [h \in Handles |-> 0]
    /\ released = [h \in Handles |-> 0]
    /\ banned = [h \in Handles |-> 0]
    /\ elapsed = 0
    /\ expired = FALSE
    /\ polls = 0
    /\ entity = None
    /\ logo = None
    /\ exc = NoExc
    /\ posts = <<>>
    /\ log = <<>>
    /\ result = NoResult

Init ==
    /\ ParserInit
    /\ DbInit

\* InTime with a deadline for each await on its own
InTime_PerAwait(d) == d <= Deadline

\* the await finishes before wait_for's timeout fires (an await that ends
\* exactly at the deadline still completes; the next one is cancelled)
InTime(d) == elapsed < Deadline /\ elapsed + d <= Deadline

\* an exception leaves _get_channel_info_internal and reaches the
\* `except asyncio.TimeoutError` clause of get_channel_info
Propagate(e) ==
    /\ exc' = e
    /\ pc' = IF e.type = "asyncio.TimeoutError" THEN "except_timeout" ELSE "aexit"

\* wait_for's timeout fires during the await of `call`: the await is
\* cancelled and wait_for raises asyncio.TimeoutError
Cancel(op, arg, secs) ==
    /\ log' = Append(log, Call(op, arg, secs, Raise(Lib("CancelledError"))))
    /\ elapsed' = Deadline
    /\ expired' = TRUE
    /\ Propagate(AsyncioTimeoutError)
    /\ UNCHANGED <<link, get_logo, handle, held, acquired, released, banned,
                   polls, entity, logo, posts, result>>

\* the await of `call` finishes after d seconds with reply r
Answer(op, arg, secs, d, r) ==
    /\ log' = Append(log, Call(op, arg, secs, r))
    /\ elapsed' = elapsed + d
    /\ UNCHANGED <<link, get_logo, handle, held, acquired, released, banned,
                   expired, result>>

\* get_channel_info up to the call of wait_for
Start ==
    /\ pc = "idle"
    /\ \E l \in Links, g \in BOOLEAN, h \in Handles :
        /\ link' = l
        /\ get_logo' = g
        /\ handle' = h
        /\ held' = held \cup {h}
        /\ acquired' = [acquired EXCEPT ![h] = @ + 1]
    /\ pc' = "get_entity"
    /\ UNCHANGED <<released, banned, elapsed, expired, polls, entity, logo,
                   exc, posts, log, result>>

\* the exception get_channel_entity raises for an exception e of its first
\* lookup that is not a ValueError
outer_except(l, e) ==
    IF e.type = "FloodWaitError" THEN FloodWait(e.seconds)
    ELSE InvalidChannelLink(l, e.detail)

\* join_except without the `except FloodWaitError` clause of line 30
join_except_NoFloodClause(l, e) ==
    IF e.type = "InviteHashExpiredError" THEN InvalidChannelLink(l, e.detail)
    ELSE IF e.type = "UserDeactivatedBanError" THEN UserBan(e.detail)
    ELSE e

\* the exception get_channel_entity raises for an exception e that
\* join_private_channel raised
join_except(l, e) ==
    IF e.type = "InviteHashExpiredError" THEN InvalidChannelLink(l, e.detail)
    ELSE IF e.type = "FloodWaitError" THEN FloodWait(e.seconds)
    ELSE IF e.type = "UserDeactivatedBanError" THEN UserBan(e.detail)
    ELSE e

\* Resolved without the check of line 38
Resolved_NoCheck(v) ==
    /\ entity' = v
    /\ pc' = IF get_logo THEN "download_profile_photo" ELSE "GetFullChannelRequest"
    /\ exc' = exc

\* get_channel_entity has channel_entity = v in hand: the check of line 38,
\* then _get_channel_info_internal goes on
Resolved(v) ==
    /\ entity' = v
    /\ IF v = None
       THEN Propagate(CannotGetChannelInfo(link))
       ELSE /\ pc' = IF get_logo THEN "download_profile_photo"
                     ELSE "GetFullChannelRequest"
            /\ exc' = exc

\* LoopHead polling until a lookup succeeds
LoopHead_Unbounded(p) == "sleep"

\* LoopHead with one iteration too many
LoopHead_OffByOne(p) == IF p <= PollRetries THEN "sleep" ELSE "final_get_entity"

\* where `for _ in range(3)` goes after p iterations
LoopHead(p) == IF p < PollRetries THEN "sleep" ELSE "final_get_entity"

\* except_ValueError taking a lookup that returned nothing for not-found too
except_ValueError_OrEmpty(r) ==
    \/ r.status = "raise" /\ r.exc.type = "ValueError"
    \/ r.status = "return" /\ r.value = None

\* `except ValueError` of lines 25 and 55: the lookup reported not-found
except_ValueError(r) == r.status = "raise" /\ r.exc.type = "ValueError"

\* import_branch polling after "already a participant" as after "queued"
import_branch_PollWhenParticipant(r) ==
    IF r.status = "return" THEN "final_get_entity"
    ELSE IF r.exc.type \in {"UserAlreadyParticipantError", "InviteRequestSentError"}
    THEN LoopHead(0)
    ELSE "raise"

\* where join_private_channel goes after the reply r to its join request
\* (lines 46-51 and 57); "raise" when the exception leaves the function
import_branch(r) ==
    IF r.status = "return" THEN "final_get_entity"
    ELSE IF r.exc.type = "UserAlreadyParticipantError" THEN "fallback_get_entity"
    ELSE IF r.exc.type = "InviteRequestSentError" THEN LoopHead(0)
    ELSE "raise"


\* line 24 and the except clauses of lines 25, 34 and 36
FirstLookup ==
    /\ pc = "get_entity"
    /\ \E d \in Durations, r \in GetEntityReplies :
        IF ~InTime(d) THEN Cancel("get_entity", link, 0)
        ELSE /\ Answer("get_entity", link, 0, d, r)
             /\ IF except_ValueError(r)
                THEN /\ pc' = "ImportChatInviteRequest"
                     /\ UNCHANGED <<entity, exc>>
                ELSE IF r.status = "return" THEN Resolved(r.value)
                ELSE /\ Propagate(outer_except(link, r.exc))
                     /\ UNCHANGED entity
             /\ UNCHANGED <<polls, logo, posts>>

\* lines 43-50: the join request and the except clauses that pick the branch
ImportChatInvite ==
    /\ pc = "ImportChatInviteRequest"
    /\ \E d \in Durations, r \in ImportReplies :
        IF ~InTime(d) THEN Cancel("ImportChatInviteRequest", invite_hash(link), 0)
        ELSE /\ Answer("ImportChatInviteRequest", invite_hash(link), 0, d, r)
             /\ IF import_branch(r) = "raise"
                THEN Propagate(join_except(link, r.exc))
                ELSE pc' = import_branch(r) /\ exc' = exc
             /\ UNCHANGED <<polls, entity, logo, posts>>

\* line 49
FallbackLookup ==
    /\ pc = "fallback_get_entity"
    /\ \E d \in Durations, r \in GetEntityReplies :
        IF ~InTime(d) THEN Cancel("get_entity", link, 0)
        ELSE /\ Answer("get_entity", link, 0, d, r)
             /\ IF r.status = "return" THEN Resolved(r.value)
                ELSE /\ Propagate(join_except(link, r.exc))
                     /\ UNCHANGED entity
             /\ UNCHANGED <<polls, logo, posts>>

\* line 52
PollSleep ==
    /\ pc = "sleep"
    /\ IF ~InTime(SleepSeconds) THEN Cancel("sleep", <<>>, SleepSeconds)
       ELSE /\ Answer("sleep", <<>>, SleepSeconds, SleepSeconds, Return(None))
            /\ polls' = polls + 1
            /\ pc' = "poll_get_entity"
            /\ UNCHANGED <<entity, logo, exc, posts>>

\* lines 53-56
PollLookup ==
    /\ pc = "poll_get_entity"
    /\ \E d \in Durations, r \in GetEntityReplies :
        IF ~InTime(d) THEN Cancel("get_entity", link, 0)
        ELSE /\ Answer("get_entity", link, 0, d, r)
             /\ IF except_ValueError(r)
                THEN /\ pc' = LoopHead(polls)
                     /\ UNCHANGED <<entity, exc>>
                ELSE IF r.status = "return" THEN Resolved(r.value)
                ELSE /\ Propagate(join_except(link, r.exc))
                     /\ UNCHANGED entity
             /\ UNCHANGED <<polls, logo, posts>>

\* line 57
FinalLookup ==
    /\ pc = "final_get_entity"
    /\ \E d \in Durations, r \in GetEntityReplies :
        IF ~InTime(d) THEN Cancel("get_entity", link, 0)
        ELSE /\ Answer("get_entity", link, 0, d, r)
             /\ IF r.status = "return" THEN Resolved(r.value)
                ELSE /\ Propagate(join_except(link, r.exc))
                     /\ UNCHANGED entity
             /\ UNCHANGED <<polls, logo, posts>>

\* DownloadProfilePhoto without the try / except of lines 120-123
DownloadProfilePhoto_NoExcept ==
    /\ pc = "download_profile_photo"
    /\ \E d \in Durations, r \in PhotoReplies :
        IF ~InTime(d) THEN Cancel("download_profile_photo", <<>>, 0)
        ELSE /\ Answer("download_profile_photo", <<>>, 0, d, r)
             /\ IF r.status = "return"
                THEN /\ logo' = r.value
                     /\ pc' = "GetFullChannelRequest"
                     /\ exc' = exc
                ELSE /\ Propagate(r.exc)
                     /\ logo' = logo
             /\ UNCHANGED <<polls, entity, posts>>

\* lines 119-125, get_logo true
DownloadProfilePhoto ==
    /\ pc = "download_profile_photo"
    /\ \E d \in Durations, r \in PhotoReplies :
        IF ~InTime(d) THEN Cancel("download_profile_photo", <<>>, 0)
        ELSE /\ Answer("download_profile_photo", <<>>, 0, d, r)
             /\ logo' = IF r.status = "return" THEN r.value ELSE None
             /\ pc' = "GetFullChannelRequest"
             /\ UNCHANGED <<polls, entity, exc, posts>>

\* line 60
GetFullChannel ==
    /\ pc = "GetFullChannelRequest"
    /\ \E d \in Durations, r \in FullChannelReplies :
        IF ~InTime(d) THEN Cancel("GetFullChannelRequest", <<>>, 0)
        ELSE /\ Answer("GetFullChannelRequest", <<>>, 0, d, r)
             /\ IF r.status = "return"
                THEN pc' = "iter_messages" /\ exc' = exc
                ELSE Propagate(r.exc)
             /\ UNCHANGED <<polls, entity, logo, posts>>

\* the ChannelInfo of lines 61-76
ChannelInfo(url, name, stats) ==
    [link |-> StripScheme(url), name |-> name,
     views |-> stats[1], posts_count |-> stats[2]]

\* lines 66 and 78-93, then the return of lines 126-129
IterMessages ==
    /\ pc = "iter_messages"
    /\ \E d \in Durations, r \in IterMessagesReplies, feed \in PostFeeds :
        IF ~InTime(d) THEN Cancel("iter_messages", <<>>, 0)
        ELSE /\ Answer("iter_messages", <<>>, 0, d, r)
             /\ IF r.status = "return"
                THEN /\ posts' = feed
                     /\ pc' = "aexit"
                     /\ exc' = exc
                ELSE /\ Propagate(r.exc)
                     /\ posts' = posts
             /\ UNCHANGED <<polls, entity, logo>>

\* ExceptTimeout with the call of mark_as_ban left out
ExceptTimeout_NoMark ==
    /\ pc = "except_timeout"
    /\ exc' = TimeoutError
    /\ pc' = "aexit"
    /\ UNCHANGED <<link, get_logo, handle, held, acquired, released, banned,
                   elapsed, expired, polls, entity, logo, posts, log, result>>

\* lines 113-115
ExceptTimeout ==
    /\ pc = "except_timeout"
    /\ banned' = [banned EXCEPT ![handle] = @ + 1]
    /\ exc' = TimeoutError
    /\ pc' = "aexit"
    /\ UNCHANGED <<link, get_logo, handle, held, acquired, released, elapsed,
                   expired, polls, entity, logo, posts, log, result>>

\* what get_channel_info hands to its caller
Outcome ==
    IF exc = NoExc
    THEN [kind |-> "response", exc |-> NoExc,
          channel |-> ChannelInfo(link, entity, get_posts(posts)), logo |-> logo]
    ELSE [kind |-> "error", exc |-> exc, channel |-> NoChannel, logo |-> None]

\* AsyncWithExit releasing only when the block ends without an exception
AsyncWithExit_NoFinally ==
    /\ pc = "aexit"
    /\ held' = IF exc = NoExc THEN held \ {handle} ELSE held
    /\ released' = IF exc = NoExc THEN [released EXCEPT ![handle] = @ + 1]
                   ELSE released
    /\ result' = Outcome
    /\ pc' = "done"
    /\ UNCHANGED <<link, get_logo, handle, acquired, banned, elapsed, expired,
                   polls, entity, logo, exc, posts, log>>

\* the end of the `async with` block of line 107
AsyncWithExit ==
    /\ pc = "aexit"
    /\ held' = held \ {handle}
    /\ released' = [released EXCEPT ![handle] = @ + 1]
    /\ result' = Outcome
    /\ pc' = "done"
    /\ UNCHANGED <<link, get_logo, handle, acquired, banned, elapsed, expired,
                   polls, entity, logo, exc, posts, log>>

Next ==
    \/ Start /\ UNCHANGED dbvars
    \/ FirstLookup /\ UNCHANGED dbvars
    \/ ImportChatInvite /\ UNCHANGED dbvars
    \/ FallbackLookup /\ UNCHANGED dbvars
    \/ PollSleep /\ UNCHANGED dbvars
    \/ PollLookup /\ UNCHANGED dbvars
    \/ FinalLookup /\ UNCHANGED dbvars
    \/ DownloadProfilePhoto /\ UNCHANGED dbvars
    \/ GetFullChannel /\ UNCHANGED dbvars
    \/ IterMessages /\ UNCHANGED dbvars
    \/ ExceptTimeout /\ UNCHANGED dbvars
    \/ AsyncWithExit /\ UNCHANGED dbvars

Spec == Init /\ [][Next]_vars


-----------------------------------------------------------------------------
(* Properties *)

Done == pc = "done"

ResolveOps == {"get_entity", "ImportChatInviteRequest", "sleep"}

Raised(i, t) ==
    /\ i \in 1..Len(log)
    /\ log[i].reply.status = "raise"
    /\ log[i].reply.exc.type = t

Returned(i) == i \in 1..Len(log) /\ log[i].reply.status = "return"

\* C1: when the 60-second deadline expires, mark_as_ban is called exactly
\* once on the handle of the invocation (and on no other handle), and the
\* caller receives the TimeoutError of get_channel_info, never the
\* asyncio.TimeoutError of wait_for.
C1_DeadlineMarksOnceAndReportsTimeout ==
    expired =>
        /\ pc \in {"except_timeout", "aexit", "done"}
        /\ \A h \in Handles \ {handle} : banned[h] = 0
        /\ banned[handle] = IF pc = "except_timeout" THEN 0 ELSE 1
        /\ pc # "except_timeout" => exc = TimeoutError
        /\ Done => result.kind = "error" /\ result.exc = TimeoutError

C1_Witness == expired /\ Done /\ banned[handle] = 1

\* C2: a handle is released exactly once on every exit path: it is held
\* from acquisition until the invocation ends, every state in which the
\* invocation can take no further step has the handle released, and no
\* handle is ever released more than once or without being acquired.
C2_HandleReleasedOnEveryExit ==
    /\ \A h \in Handles :
        /\ released[h] <= acquired[h]
        /\ acquired[h] <= 1
        /\ (h \in held) = (acquired[h] > released[h])
    /\ pc \notin {"idle", "done"} => handle \in held
    /\ Done => held = {} /\ acquired[handle] = 1 /\ released[handle] = 1
    /\ ~ENABLED Next => held = {} /\ released[handle] = 1

C2_Witness ==
    /\ Done
    /\ result.kind = "error"
    /\ result.exc.type = "RPCError"
    /\ log[Len(log)].op = "iter_messages"
    /\ released[handle] = 1

\* C3: when the first direct lookup succeeds, resolve performs exactly one
\* lookup and never submits a join request or waits.
C3_DirectLookupNeverJoins ==
    Returned(1) =>
        /\ pc # "ImportChatInviteRequest"
        /\ \A i \in 2..Len(log) : log[i].op \notin ResolveOps

C3_Witness ==
    /\ Returned(1)
    /\ log[1].reply.value \in Entities
    /\ Done
    /\ result.kind = "response"


\* the join request was answered "queued for approval"
Queued == Raised(2, "InviteRequestSentError")

\* every polling lookup answered before log entry i reported not-found
PollsNotFoundBefore(i) ==
    \A j \in {4, 6, 8} : j < i => Raised(j, "ValueError")

\* C4: after a join request answered "queued for approval", as long as the
\* polling lookups report not-found, resolve performs exactly 3 polling
\* lookups, each right after a completed 10-second wait, then one final
\* lookup with no wait before it; when that final lookup fails, nothing
\* further is requested and the invocation ends with an error.
C4_QueuedJoinPollsThreeTimes ==
    Queued =>
        /\ \A i \in 3..Len(log) :
            PollsNotFoundBefore(i) =>
                /\ i \in {3, 5, 7} => log[i].op = "sleep" /\ log[i].secs = 10
                /\ i \in {4, 6, 8} =>
                    /\ log[i].op = "get_entity"
                    /\ log[i - 1] = Call("sleep", <<>>, 10, Return(None))
                /\ i = 9 => log[i].op = "get_entity"
                /\ i = 10 => Returned(9) /\ log[9].reply.value # None
        /\ (Len(log) = 8 /\ PollsNotFoundBefore(9)) => pc = "final_get_entity"
        /\ (Len(log) = 9 /\ PollsNotFoundBefore(9) /\ log[9].reply.status = "raise") =>
            /\ pc \in {"except_timeout", "aexit", "done"}
            /\ exc # NoExc
            /\ Done => result.kind = "error"

C4_Witness ==
    /\ Queued
    /\ Len(log) = 9
    /\ PollsNotFoundBefore(9)
    /\ Raised(9, "ValueError")
    /\ Done
    /\ result.kind = "error"

\* C5: after a join request answered "already a participant", the next
\* request of resolve is a direct lookup with no wait before it, and when
\* that lookup returns an entity, resolve succeeds with that entity.
C5_AlreadyParticipantFallsBack ==
    Raised(2, "UserAlreadyParticipantError") =>
        /\ Len(log) = 2 => pc = "fallback_get_entity"
        /\ Len(log) >= 3 => log[3].op = "get_entity"
        /\ (Returned(3) /\ log[3].reply.value \in Entities) =>
            /\ entity = log[3].reply.value
            /\ Len(log) = 3 =>
                /\ pc \in {"download_profile_photo", "GetFullChannelRequest"}
                /\ exc = NoExc
            /\ (Done /\ result.kind = "response") =>
                result.channel.name = log[3].reply.value

C5_Witness ==
    /\ Raised(2, "UserAlreadyParticipantError")
    /\ Returned(3)
    /\ log[3].reply.value = "chanB"
    /\ Done
    /\ result.kind = "response"
    /\ result.channel.name = "chanB"

\* C6: a FloodWaitError raised by any request of resolve (first lookup, join
\* request, fallback, polling or final lookup) ends resolve at once with
\* FloodWait carrying the seconds of the signal: it is the last entry of the
\* log, so no request and no wait follows it.
C6_RateLimitAbortsResolve ==
    \A i \in 1..Len(log) :
        (log[i].op \in ResolveOps /\ Raised(i, "FloodWaitError")) =>
            /\ i = Len(log)
            /\ pc \in {"aexit", "done"}
            /\ exc = FloodWait(log[i].reply.exc.seconds)
            /\ Done => result.kind = "error" /\ result.exc = exc

C6_Witness ==
    /\ Queued
    /\ Len(log) = 6
    /\ Raised(6, "FloodWaitError")
    /\ log[6].reply.exc.seconds = 2
    /\ Done
    /\ result.exc = FloodWait(2)


\* the exception of log entry i ended resolve: it left get_channel_entity
\* (it is not one of the replies the join protocol branches on)
ResolveFailedAt(i) ==
    /\ i = Len(log)
    /\ log[i].op \in ResolveOps
    /\ log[i].reply.status = "raise"
    /\ log[i].reply.exc.type # "CancelledError"
    /\ pc \in {"except_timeout", "aexit", "done"}

\* C7: a UserDeactivatedBanError raised by any request of resolve (first
\* lookup, join request, or a lookup of the join protocol) makes resolve fail
\* with UserBan.
C7_AccountSuspendedGivesUserBan ==
    \A i \in 1..Len(log) :
        (log[i].op \in ResolveOps /\ Raised(i, "UserDeactivatedBanError")) =>
            /\ pc \in {"aexit", "done"}
            /\ exc.type = "UserBan"

\* C8: a failure of resolve that is neither a FloodWaitError nor a
\* UserDeactivatedBanError, whichever request of resolve raised it, makes
\* resolve fail with InvalidChannelLink carrying the link of the request and
\* the message of the failure.
C8_OtherFailureGivesInvalidChannelLink ==
    \A i \in 1..Len(log) :
        (/\ ResolveFailedAt(i)
         /\ log[i].reply.exc.type \notin {"FloodWaitError", "UserDeactivatedBanError"}) =>
            /\ pc \in {"aexit", "done"}
            /\ exc = InvalidChannelLink(link, log[i].reply.exc.detail)

TaxonomyTypes ==
    {"FloodWait", "UserBan", "InvalidChannelLink", "CannotGetChannelInfo", "TimeoutError"}

\* C9: the caller of get_channel_info receives either a response or an
\* error of the closed taxonomy; no exception of the remote library reaches
\* it untranslated.
C9_OnlyTaxonomyErrorsReachCaller ==
    Done => result.kind = "response" \/ result.exc.type \in TaxonomyTypes

PhotoFetches == {i \in 1..Len(log) : log[i].op = "download_profile_photo"}

\* C10: with get_logo false no image fetch is issued; with get_logo true an
\* image fetch that raises is swallowed: the logo is None, the invocation
\* goes on to the profile fetch, and when profile fetch and post scan then
\* succeed the caller receives a response whose logo is None.
C10_LogoIsBestEffort ==
    /\ ~get_logo => PhotoFetches = {} /\ pc # "download_profile_photo"
    /\ \A i \in PhotoFetches :
        (log[i].reply.status = "raise" /\ log[i].reply.exc.type # "CancelledError") =>
            /\ logo = None
            /\ i = Len(log) => pc = "GetFullChannelRequest" /\ exc = NoExc
            /\ (i + 2 = Len(log) /\ Returned(i + 1) /\ Returned(i + 2)) =>
                /\ pc \in {"aexit", "done"}
                /\ exc = NoExc
                /\ Done => result.kind = "response" /\ result.logo = None

C10_Witness ==
    /\ get_logo
    /\ \E i \in PhotoFetches : Raised(i, "FloodWaitError")
    /\ Done
    /\ result.kind = "response"
    /\ result.logo = None


-----------------------------------------------------------------------------
(* The post scan on its own: __get_posts applied to every sequence of at   *)
(* most MaxPosts posts that iter_messages can deliver.                     *)

MaxPosts == 3

Ages == {1, WindowHours, WindowHours + 1}
ViewCounts == {NoViews, 5, 9}
AllPosts == {Post(a, v) : a \in Ages, v \in ViewCounts}
Feeds == UNION {[1..n -> AllPosts] : n \in 0..MaxPosts}

ScanInit ==
    /\ pc = "__get_posts"
    /\ posts \in Feeds
    /\ link \in Links
    /\ entity \in Entities
    /\ get_logo = FALSE
    /\ handle = None
    /\ held = {}
    /\ acquired = [h \in Handles |-> 0]
    /\ released = [h \in Handles |-> 0]
    /\ banned = [h \in Handles |-> 0]
    /\ elapsed = 0
    /\ expired = FALSE
    /\ polls = 0
    /\ logo = None
    /\ exc = NoExc
    /\ log = <<>>
    /\ result = NoResult
    /\ DbInit

\* lines 66-76: get_channel calls __get_posts and builds the ChannelInfo
GetPosts ==
    /\ pc = "__get_posts"
    /\ result' = [kind |-> "response", exc |-> NoExc,
                  channel |-> ChannelInfo(link, entity, get_posts(posts)),
                  logo |-> logo]
    /\ pc' = "scanned"
    /\ UNCHANGED <<link, get_logo, handle, held, acquired, released, banned,
                   elapsed, expired, polls, entity, logo, exc, posts, log>>

ScanNext == GetPosts /\ UNCHANGED dbvars

ScanSpec == ScanInit /\ [][ScanNext]_vars

Scanned == pc = "scanned"

\* the posts are delivered newest first
NewestFirst(msgs) ==
    \A i, j \in 1..Len(msgs) : i <= j => msgs[i].age <= msgs[j].age

InWindow(msgs) == {i \in 1..Len(msgs) : msgs[i].age <= 24}

\* the first post older than the cutoff (Len + 1 when there is none)
FirstOld(msgs) ==
    LET old == {i \in 1..Len(msgs) : msgs[i].age > 24}
    IN IF old = {} THEN Len(msgs) + 1
       ELSE CHOOSE i \in old : \A j \in old : i <= j

\* msgs cut off before its first post older than the cutoff
UpToFirstOld(msgs) == SubSeq(msgs, 1, FirstOld(msgs) - 1)

\* C11: for posts delivered newest first, posts_count is the number of
\* posts at most 24 hours old (a post exactly 24 hours old is counted); the
\* scan stops at the first older post: the count is the number of posts
\* before it, and the result is that of the feed cut off before that post.
C11_PostCountIsInWindowPrefix ==
    Scanned =>
        /\ NewestFirst(posts) =>
            result.channel.posts_count = Cardinality(InWindow(posts))
        /\ result.channel.posts_count = FirstOld(posts) - 1
        /\ <<result.channel.views, result.channel.posts_count>> =
               get_posts(UpToFirstOld(posts))

C11_Witness ==
    /\ Scanned
    /\ NewestFirst(posts)
    /\ Len(posts) = 3
    /\ posts[2].age = 24
    /\ posts[3].age > 24
    /\ result.channel.posts_count = 2


\* the posts are delivered newest first and no two have the same date
StrictlyNewestFirst(msgs) ==
    \A i, j \in 1..Len(msgs) : i < j => msgs[i].age < msgs[j].age

\* the posts at most 24 hours old that carry a view counter
Viewed(msgs) == {i \in InWindow(msgs) : msgs[i].views # NoViews}

\* C12: for posts delivered newest first, views is the view counter of the
\* most recent post within the last 24 hours that has one.
C12_ViewsOfMostRecentPost ==
    (Scanned /\ StrictlyNewestFirst(posts) /\ Viewed(posts) # {}) =>
        LET first == CHOOSE i \in Viewed(posts) : \A j \in Viewed(posts) : i <= j
        IN result.channel.views = posts[first].views

\* C15: for posts delivered newest first, views is set by last write wins:
\* it is the view counter of the oldest post within the last 24 hours that
\* has one, and 0 when no post in the window has one.
C15_ViewsOfOldestPostInWindow ==
    (Scanned /\ NewestFirst(posts)) =>
        IF Viewed(posts) = {} THEN result.channel.views = 0
        ELSE LET last == CHOOSE i \in Viewed(posts) : \A j \in Viewed(posts) : j <= i
             IN result.channel.views = posts[last].views

C15_Witness ==
    /\ Scanned
    /\ NewestFirst(posts)
    /\ Len(posts) = 3
    /\ posts[1].views = 5
    /\ posts[2].views = 9
    /\ posts[2].age <= 24
    /\ posts[3].age > 24
    /\ posts[3].views = 5
    /\ result.channel.views = 9


-----------------------------------------------------------------------------
(* The database service (database/src/database.py): one caller storing     *)
(* the channels the parser returned, one caller reading them, their awaits *)
(* interleaved.                                                            *)

MaxUpserts == 3

ChannelIds == {1, 2}

\* the link and the title of the channels of the platform
LinkOf(id) ==
    IF id = 1 THEN <<"t",".","m","e","/","f","o","o">>
    ELSE <<"t",".","m","e","/","+","A","b">>
NameOf(id) == IF id = 1 THEN "chanA" ELSE "chanB"

\* the ways a caller writes the link x
Forms(x) == {x, Https \o x, Http \o x}

QueryLinks == UNION {Forms(LinkOf(id)) : id \in ChannelIds}

\* (views, posts_count) of a snapshot
Snapshots == {<<0, 0>>, <<9, 2>>}

\* db_removeprefix stripping only the https scheme
db_removeprefix_HttpsOnly(l) ==
    IF startswith(l, Https) THEN removeprefix(l, Https) ELSE l

\* lines 82-86 of get_channel_by_link
db_removeprefix(l) ==
    IF startswith(l, Https) THEN removeprefix(l, Https)
    ELSE IF startswith(l, Http) THEN removeprefix(l, Http)
    ELSE l

\* lines 32-42: Channel.update_or_create with the ChannelInfo the parser
\* built for a request link of the channel
UpdateOrCreate ==
    /\ up.pc = "idle"
    /\ up.done < MaxUpserts
    /\ \E id \in ChannelIds, st \in Snapshots : \E f \in Forms(LinkOf(id)) :
        LET channel == ChannelInfo(f, NameOf(id), st)
        IN /\ channels' = (id :> [link |-> channel.link, name |-> channel.name])
                              @@ channels
           /\ up' = [pc |-> "create_statistics", id |-> id, request |-> f,
                     channel |-> channel, created |-> id \notin DOMAIN channels,
                     done |-> up.done]
    /\ UNCHANGED <<statistics, rd>>

\* lines 43-50: ChannelStatistics.create and the return
CreateStatistics ==
    /\ up.pc = "create_statistics"
    /\ statistics' = Append(statistics,
           [channel |-> up.id, views_24h |-> up.channel.views,
            posts_count |-> up.channel.posts_count,
            recorded_at |-> Len(statistics) + 1])
    /\ up' = [up EXCEPT !.pc = "idle", !.done = @ + 1]
    /\ UNCHANGED <<channels, rd>>

\* the reader after Channel.get: the row found, or ChannelDoesNotExistError
AfterChannelGet(op, id, query, l, rows) ==
    IF rows = {}
    THEN [NoRead EXCEPT !.pc = "done", !.op = op, !.id = id, !.query = query,
                        !.link = l, !.result = "ChannelDoesNotExistError"]
    ELSE LET row == CHOOSE r \in rows : TRUE
         IN [NoRead EXCEPT !.pc = "statistics", !.op = op, !.id = id,
                           !.query = query, !.link = l, !.row = row,
                           !.channel = [NoChannel EXCEPT
                                            !.link = channels[row].link,
                                            !.name = channels[row].name]]

\* lines 53-59
get_channel ==
    /\ rd.pc \in {"idle", "done"}
    /\ \E id \in ChannelIds :
        rd' = AfterChannelGet("get_channel", id, <<>>, <<>>,
                              {r \in DOMAIN channels : r = id})
    /\ UNCHANGED <<channels, statistics, up>>

\* lines 80-92
get_channel_by_link ==
    /\ rd.pc \in {"idle", "done"}
    /\ \E q \in QueryLinks :
        rd' = AfterChannelGet("get_channel_by_link", 0, q, db_removeprefix(q),
                  {r \in DOMAIN channels : channels[r].link = db_removeprefix(q)})
    /\ UNCHANGED <<channels, statistics, up>>

\* the rows of ChannelStatistics.filter(channel=row)
StatisticsOf(row) == {i \in 1..Len(statistics) : statistics[i].channel = row}

\* LatestStatistics reporting a channel without statistics as unknown
LatestStatistics_ChannelError ==
    /\ rd.pc = "statistics"
    /\ IF StatisticsOf(rd.row) = {}
       THEN rd' = [rd EXCEPT !.pc = "done", !.result = "ChannelDoesNotExistError"]
       ELSE LET first == CHOOSE i \in StatisticsOf(rd.row) :
                             \A j \in StatisticsOf(rd.row) :
                                 statistics[j].recorded_at <= statistics[i].recorded_at
            IN rd' = [rd EXCEPT !.pc = "done", !.result = "response",
                                !.channel.views = statistics[first].views_24h,
                                !.channel.posts_count = statistics[first].posts_count,
                                !.last_update = statistics[first].recorded_at]
    /\ UNCHANGED <<channels, statistics, up>>

\* lines 61-77 and 93-106: the latest statistics of the channel found
LatestStatistics ==
    /\ rd.pc = "statistics"
    /\ IF StatisticsOf(rd.row) = {}
       THEN rd' = [rd EXCEPT !.pc = "done", !.result = "StatsDoesNotExistError"]
       ELSE LET first == CHOOSE i \in StatisticsOf(rd.row) :
                             \A j \in StatisticsOf(rd.row) :
                                 statistics[j].recorded_at <= statistics[i].recorded_at
            IN rd' = [rd EXCEPT !.pc = "done", !.result = "response",
                                !.channel.views = statistics[first].views_24h,
                                !.channel.posts_count = statistics[first].posts_count,
                                !.last_update = statistics[first].recorded_at]
    /\ UNCHANGED <<channels, statistics, up>>

DbNext ==
    \/ UpdateOrCreate /\ UNCHANGED parservars
    \/ CreateStatistics /\ UNCHANGED parservars
    \/ get_channel /\ UNCHANGED parservars
    \/ get_channel_by_link /\ UNCHANGED parservars
    \/ LatestStatistics /\ UNCHANGED parservars

DbSpec == Init /\ [][DbNext]_vars


\* the reader takes the step that looks the channel up
ChannelLookupStep == rd.pc \in {"idle", "done"} /\ rd' # rd

\* the reader takes the step that looks the statistics up
StatisticsLookupStep == rd.pc = "statistics" /\ rd' # rd

\* the stored channels the query of the reader's new call denotes
Denoted ==
    IF rd'.op = "get_channel" THEN {id \in DOMAIN channels : id = rd'.id}
    ELSE {id \in DOMAIN channels : rd'.query \in Forms(LinkOf(id))}

\* C13: 'https://X', 'http://X' and 'X' normalize to X, in the parser and
\* in get_channel_by_link alike; a channel stored from any of the three
\* forms is stored under X and is the channel get_channel_by_link finds for
\* any of the three forms.
C13_LinkFormsAreEquivalent ==
    /\ [](\A id \in ChannelIds : \A f \in Forms(LinkOf(id)) :
            /\ StripScheme(f) = LinkOf(id)
            /\ db_removeprefix(f) = StripScheme(f))
    /\ [](\A id \in DOMAIN channels : channels[id].link = LinkOf(id))
    /\ [][(ChannelLookupStep /\ rd'.op = "get_channel_by_link") =>
            \A id \in DOMAIN channels :
                rd'.query \in Forms(LinkOf(id)) =>
                    /\ rd'.result # "ChannelDoesNotExistError"
                    /\ rd'.row = id]_vars

C13_Witness ==
    /\ up.id = 1
    /\ up.request = Https \o LinkOf(1)
    /\ up.done = 1
    /\ rd.op = "get_channel_by_link"
    /\ rd.query = Http \o LinkOf(1)
    /\ rd.result = "response"
    /\ rd.channel.link = LinkOf(1)

\* C14: get_channel and get_channel_by_link fail with
\* ChannelDoesNotExistError exactly when the id or link denotes no stored
\* channel, and with StatsDoesNotExistError exactly when the channel found
\* has no statistics row; otherwise they return a response.
C14_PersistenceErrorsAreDistinct ==
    /\ [][ChannelLookupStep =>
            IF Denoted = {}
            THEN rd'.pc = "done" /\ rd'.result = "ChannelDoesNotExistError"
            ELSE rd'.pc = "statistics" /\ rd'.result = "none" /\ rd'.row \in Denoted]_vars
    /\ [][StatisticsLookupStep =>
            /\ rd'.pc = "done"
            /\ rd'.result =
                IF \E i \in 1..Len(statistics) : statistics[i].channel = rd.row
                THEN "response" ELSE "StatsDoesNotExistError"]_vars

C14_Witness ==
    /\ rd.op = "get_channel_by_link"
    /\ rd.pc = "done"
    /\ rd.result = "StatsDoesNotExistError"
    /\ rd.row \in DOMAIN channels

\* C20: every stored channel has at least one statistics row in every
\* state a reader can observe, and get_channel never fails with
\* StatsDoesNotExistError for a channel update_or_create_channel stored.
C20_UpsertIsAtomic ==
    /\ \A id \in DOMAIN channels :
        \E i \in 1..Len(statistics) : statistics[i].channel = id
    /\ ~(rd.op = "get_channel" /\ rd.result = "StatsDoesNotExistError")


-----------------------------------------------------------------------------
(* Properties of one invocation of get_channel_info, continued *)

Cancelled(i) == Raised(i, "CancelledError")

Calls(op) == {i \in 1..Len(log) : log[i].op = op}

\* C16: one 60-second deadline covers the whole invocation: the seconds of
\* every await (lookups, the 10-second waits of the polling, image fetch,
\* profile fetch, post scan) add up in one clock that never passes 60; the
\* await during which the sum would pass 60 is cancelled, although no
\* single await lasts 60 seconds, and the invocation then ends in Timeout.
C16_OneDeadlineForTheInvocation ==
    /\ \A d \in Durations \cup {SleepSeconds} : d < 60
    /\ elapsed <= 60
    /\ elapsed >= 10 * Cardinality({i \in Calls("sleep") : Returned(i)})
    /\ expired = (\E i \in 1..Len(log) : Cancelled(i))
    /\ \A i \in 1..Len(log) : Cancelled(i) => i = Len(log) /\ elapsed = 60
    /\ (Done /\ expired) => result.exc = TimeoutError
    /\ (Done /\ result.kind = "response") => ~expired

C16_Witness ==
    /\ Done
    /\ expired
    /\ get_logo
    /\ Calls("sleep") # {}
    /\ log[Len(log)].op = "iter_messages"
    /\ Cancelled(Len(log))
    /\ result.exc = TimeoutError

\* C17: mark_as_ban is called only when the 60-second deadline expired: an
\* invocation that ends before the deadline, with a response or with any
\* error of a remote call, never marks its handle (stated for the
\* invocations whose resolve returned an entity: the error then comes from
\* the profile fetch or the post scan).
C17_MarkedOnlyOnDeadlineExpiry ==
    \A h \in Handles : (banned[h] > 0 /\ entity \in Entities) => expired

\* the lookups of the polling loop: those issued right after a wait
PollingLookups == {i \in Calls("get_entity") : i > 1 /\ log[i - 1].op = "sleep"}

\* C18: resolve is bounded: at most one join request, at most 5 lookups (the
\* first, at most 3 polling lookups, at most one fallback or final lookup),
\* at most 3 waits; and a polling lookup that returns ends resolve: no wait
\* and no lookup follows it.
C18_ResolveIsBounded ==
    /\ Cardinality(Calls("ImportChatInviteRequest")) <= 1
    /\ Cardinality(Calls("get_entity")) <= 5
    /\ Cardinality(PollingLookups) <= 3
    /\ Cardinality(Calls("get_entity") \ (PollingLookups \cup {1})) <= 1
    /\ Cardinality(Calls("sleep")) <= 3
    /\ \A i \in PollingLookups :
        Returned(i) =>
            /\ \A j \in (i + 1)..Len(log) : log[j].op \notin ResolveOps
            /\ pc \notin {"sleep", "poll_get_entity", "final_get_entity",
                          "fallback_get_entity", "ImportChatInviteRequest"}

C18_Witness ==
    /\ Queued
    /\ 6 \in PollingLookups
    /\ Returned(6)
    /\ log[6].reply.value \in Entities
    /\ Done
    /\ result.kind = "response"

\* the stage of the invocation an await belongs to
Phase(op) ==
    IF op \in ResolveOps THEN 1
    ELSE IF op = "download_profile_photo" THEN 2
    ELSE IF op = "GetFullChannelRequest" THEN 3
    ELSE 4

\* C19: the awaits of one invocation come in the order resolve, image
\* fetch (only with get_logo), profile fetch, post scan, each of the last
\* three at most once; nothing follows resolve unless its last lookup
\* returned an entity, the profile fetch follows the image fetch (or
\* resolve, without get_logo), and the post scan is issued only after a
\* profile fetch that returned.
C19_CallsInFixedOrder ==
    /\ \A i, j \in 1..Len(log) : i < j => Phase(log[i].op) <= Phase(log[j].op)
    /\ \A op \in {"download_profile_photo", "GetFullChannelRequest", "iter_messages"} :
        Cardinality(Calls(op)) <= 1
    /\ Calls("download_profile_photo") # {} => get_logo
    /\ \A i \in 1..Len(log) :
        /\ (Phase(log[i].op) >= 2 /\ Phase(log[i - 1].op) = 1) =>
            /\ log[i - 1].op = "get_entity"
            /\ Returned(i - 1)
            /\ log[i - 1].reply.value \in Entities
        /\ Phase(log[i].op) = 2 => Phase(log[i - 1].op) = 1
        /\ Phase(log[i].op) = 3 =>
            /\ Phase(log[i - 1].op) = (IF get_logo THEN 2 ELSE 1)
            /\ ~Cancelled(i - 1)
        /\ Phase(log[i].op) = 4 =>
            /\ log[i - 1].op = "GetFullChannelRequest"
            /\ Returned(i - 1)

C19_Witness ==
    /\ Done
    /\ get_logo
    /\ result.kind = "response"
    /\ Len(log) = 4
    /\ log[2].op = "download_profile_photo"
    /\ log[3].op = "GetFullChannelRequest"
    /\ log[4].op = "iter_messages"

====
